---------------------------- MODULE Spec2Model ----------------------------
(***************************************************************************)
(* A model of minilzo-rs: the Rust binding src/src/lib.rs (error mapping,  *)
(* LZO::init, compress, decompress, decompress_safe, adler32) together     *)
(* with the LZO1X-1 codec and the Adler-32 routine it calls.  The codec    *)
(* (minilzo/minilzo.c, compiled by src/build.rs) is not part of the        *)
(* sources at hand; it is modelled from the specification's description    *)
(* of the LZO1X op-code stream.                                            *)
(*                                                                         *)
(* Byte buffers are sequences of 0..255.  Positions are 0-based as in the  *)
(* code; At(s, i) reads position i.                                        *)
(***************************************************************************)
EXTENDS Integers, Sequences, FiniteSets, TLC

VARIABLES
    pc,       \* position of the caller: which call returned last
    wrkmem,   \* LZO.wrkmem, the instance's scratch table ("none" before init)
    src,      \* the buffer handed to compress / adler32
    stream,   \* the compressed bytes the caller holds
    dst_len,  \* the expected length handed to the decompressors (-1: not chosen)
    cres,     \* result of the last compress call
    sres,     \* result of the last decompress_safe call
    ures,     \* result of the last decompress call
    code,     \* the numeric code handed to lzo_err_code_to_result
    eres,     \* result of lzo_err_code_to_result
    ares,     \* result of adler32
    calls     \* number of compress calls made on the instance

vars == <<pc, wrkmem, src, stream, dst_len, cres, sres, ures, code, eres, ares, calls>>

-----------------------------------------------------------------------------
(* Bounds of the model *)

\* longest source buffer handed to compress
MaxLen == 40
\* longest buffer handed to adler32 (besides the 1024-byte test vector)
MaxAdlerLen == 12
\* codes below -MaxCode are not tried by the error-mapping specification
MaxCode == 101
\* number of compress calls on one instance in the reuse specification
MaxCalls == 2
\* source buffers long enough to be searched for matches: the lengths
\* MaxLen - Span .. MaxLen
Span == 8
\* largest expected length tried on a stream that compress did not produce
MaxForgeLen == 6

-----------------------------------------------------------------------------
(* Bytes and buffers *)

Byte == 0..255

At(s, i) == s[i + 1]

\* A read outside the buffer yields 0 here; every caller below guards the
\* position first, so the value is never used by the checked paths.
Rd(s, i) == IF i >= 0 /\ i < Len(s) THEN s[i + 1] ELSE 0

Zeros(n) == [i \in 1..n |-> 0]

\* Vec::resize(new_len, 0)
Resize(v, n) == IF n <= Len(v) THEN SubSeq(v, 1, n) ELSE v \o Zeros(n - Len(v))

\* overwrite the front of v with w (the codec writing through the pointer
\* to v's storage); w is never longer than v on the checked paths
Overwrite(v, w) ==
    IF Len(w) >= Len(v) THEN SubSeq(w, 1, Len(v))
    ELSE w \o SubSeq(v, Len(w) + 1, Len(v))

\* F applied to the value of v, v being evaluated once
With(v, F(_)) == CHOOSE y \in {F(x) : x \in {v}} : TRUE

-----------------------------------------------------------------------------
(* The error taxonomy and the mapping from codec return codes *)

Error ==
    {"Error", "OutOfMemory", "NotCompressible", "InputOverrun", "OutputOverrun",
     "LookbehindOverrun", "EOFNotFound", "InputNotConsumed", "NotYetImplemented",
     "InvalidArgument", "InvalidAlignment", "OutputNotConsumed", "InternalError"}

Ok(value) == [ok |-> TRUE, val |-> value, err |-> "none"]
Err(e) == [ok |-> FALSE, val |-> <<>>, err |-> e]

\* the mapping with the code ignored
lzo_err_code_to_result_all_ok(c, value) == Ok(value)

lzo_err_code_to_result(c, value) ==
    CASE c = 0 -> Ok(value)
      [] c = -1 -> Err("Error")
      [] c = -2 -> Err("OutOfMemory")
      [] c = -3 -> Err("NotCompressible")
      [] c = -4 -> Err("InputOverrun")
      [] c = -5 -> Err("OutputOverrun")
      [] c = -6 -> Err("LookbehindOverrun")
      [] c = -7 -> Err("EOFNotFound")
      [] c = -8 -> Err("InputNotConsumed")
      [] c = -9 -> Err("NotYetImplemented")
      [] c = -10 -> Err("InvalidArgument")
      [] c = -11 -> Err("InvalidArgument")
      [] c = -12 -> Err("OutputNotConsumed")
      [] c = -99 -> Err("InternalError")
      [] OTHER -> Err("Error")

\* return codes of the codec
LZO_E_OK == 0
LZO_E_OUT_OF_MEMORY == -2
LZO_E_INPUT_OVERRUN == -4
LZO_E_OUTPUT_OVERRUN == -5
LZO_E_LOOKBEHIND_OVERRUN == -6
LZO_E_INPUT_NOT_CONSUMED == -8
LZO_E_OUTPUT_NOT_CONSUMED == -12

-----------------------------------------------------------------------------
(* LZO1X op-code classes *)

M2_MAX_LEN == 8
M2_MAX_OFFSET == 2048
M3_MAX_LEN == 33
M3_MAX_OFFSET == 16384
M4_MAX_LEN == 9
M3_MARKER == 32
M4_MARKER == 16
\* a compression block: table entries are 16-bit offsets into it
BLOCK_MAX == 49152
\* the last bytes of a block are never the start of a match
TAIL_RESERVE == 20

-----------------------------------------------------------------------------
(* The scratch table.  A table is [dflt, tbl]: tbl holds the buckets       *)
(* written so far, dflt the content of every other bucket.                 *)

EmptyTbl == [x \in {} |-> 0]

Lookup(w, d) == IF d \in DOMAIN w.tbl THEN w.tbl[d] ELSE w.dflt

Update(w, d, v) ==
    [w EXCEPT !.tbl = [x \in (DOMAIN w.tbl) \cup {d} |->
                           IF x = d THEN v ELSE w.tbl[x]]]

\* the table left as it was handed in
KeepTable(w) == w

\* "reinitialized (logically empty) at the start of each compression"
ClearTable(w) == [dflt |-> 0, tbl |-> EmptyTbl]

\* hash of the four bytes b0..b3 (little endian value dv):
\* ((0x1824429d * dv) mod 2^32) >> 18, computed on 8-bit limbs so that no
\* intermediate value exceeds 31 bits
DINDEX(b0, b1, b2, b3) ==
    LET c0 == b0 * 157
        c1 == b0 * 66 + b1 * 157
        c2 == b0 * 36 + b1 * 66 + b2 * 157
        c3 == b0 * 24 + b1 * 36 + b2 * 66 + b3 * 157
        lo == c0 + (c1 % 256) * 256
        hi == ((lo \div 65536) + (c1 \div 256) + c2 + (c3 % 256) * 256) % 65536
    IN  hi \div 4

\* the four bytes at p equal the four bytes at q
Same4(s, p, q) == \A j \in 0..3 : Rd(s, p + j) = Rd(s, q + j)

-----------------------------------------------------------------------------
(* Compressor *)

\* the length bytes of a long run: zero bytes worth 255 each, then the rest
RECURSIVE LongLen(_)
LongLen(tt) == IF tt > 255 THEN <<0>> \o LongLen(tt - 255) ELSE <<tt>>

\* set the two low bits of the op-code two bytes back to t (1..3)
OrBack(out, t) == [out EXCEPT ![Len(out) - 1] = @ + t]

\* a literal run of t bytes of s starting at ii, after a match
EmitLiterals(out, s, ii, t) ==
    LET lits == SubSeq(s, ii + 1, ii + t) IN
    IF t = 0 THEN out
    ELSE IF t <= 3 THEN OrBack(out, t) \o lits
    ELSE IF t <= 18 THEN out \o <<t - 3>> \o lits
    ELSE out \o <<0>> \o LongLen(t - 18) \o lits

\* a match of m_len bytes at distance m_off
EmitMatch(out, m_len, m_off) ==
    IF m_len <= M2_MAX_LEN /\ m_off <= M2_MAX_OFFSET
    THEN LET o == m_off - 1 IN
         out \o <<((m_len - 1) * 32) + ((o % 8) * 4), o \div 8>>
    ELSE IF m_off <= M3_MAX_OFFSET
    THEN LET o == m_off - 1 IN
         (IF m_len <= M3_MAX_LEN
          THEN out \o <<M3_MARKER + (m_len - 2)>>
          ELSE out \o <<M3_MARKER>> \o LongLen(m_len - M3_MAX_LEN))
         \o <<(o * 4) % 256, o \div 64>>
    ELSE LET o == m_off - 16384
             h == ((o \div 2048) % 16) - (((o \div 2048) % 16) % 8) IN
         (IF m_len <= M4_MAX_LEN
          THEN out \o <<M4_MARKER + h + (m_len - 2)>>
          ELSE out \o <<M4_MARKER + h>> \o LongLen(m_len - M4_MAX_LEN))
         \o <<(o * 4) % 256, (o \div 64) % 256>>

\* length of the match between ip and m_pos: bytes are compared in groups
\* of eight and the block limit is looked at once per group.  m bytes are
\* known equal and k bytes of the current group are done.
RECURSIVE MatchLen(_, _, _, _, _, _)
MatchLen(s, ip, m_pos, m, k, ip_end) ==
    LET m1 == m + 1 IN
    IF k < 7
    THEN IF Rd(s, ip + m1) # Rd(s, m_pos + m1) THEN m1
         ELSE MatchLen(s, ip, m_pos, m1, k + 1, ip_end)
    ELSE IF ip + m1 >= ip_end THEN m1
    ELSE IF Rd(s, ip + m1) = Rd(s, m_pos + m1)
         THEN MatchLen(s, ip, m_pos, m1, 0, ip_end)
         ELSE m1

\* one block [bs, bs + len) of s with ti literals pending before it.
\* Returns the output, the number of pending tail literals and the table.
RECURSIVE do_compress(_, _, _, _, _, _, _, _, _)
do_compress(s, bs, len, ip, ii, ti, out, w, lit) ==
    LET ip_end == bs + len - TAIL_RESERVE
        ip1 == IF lit THEN ip + 1 + ((ip - ii) \div 32) ELSE ip
    IN
    IF ip1 >= ip_end
    THEN [out |-> out, t |-> (bs + len) - (ii - ti), w |-> w]
    ELSE LET d == DINDEX(Rd(s, ip1), Rd(s, ip1 + 1), Rd(s, ip1 + 2), Rd(s, ip1 + 3))
             m_pos == bs + Lookup(w, d)
             w1 == Update(w, d, ip1 - bs)
         IN
         IF ~Same4(s, ip1, m_pos)
         THEN do_compress(s, bs, len, ip1, ii, ti, out, w1, TRUE)
         ELSE LET ii1 == ii - ti
                  out1 == EmitLiterals(out, s, ii1, ip1 - ii1)
                  m_len == IF Rd(s, ip1 + 4) = Rd(s, m_pos + 4)
                           THEN MatchLen(s, ip1, m_pos, 4, 0, ip_end)
                           ELSE 4
                  out2 == EmitMatch(out1, m_len, ip1 - m_pos)
              IN do_compress(s, bs, len, ip1 + m_len, ip1 + m_len, 0, out2, w1, FALSE)

\* the blocks of s from position ip on, l bytes left, t literals pending
RECURSIVE CompressBlocks(_, _, _, _, _, _)
CompressBlocks(s, ip, l, t, out, w) ==
    LET ll == IF l < BLOCK_MAX THEN l ELSE BLOCK_MAX IN
    IF l <= TAIL_RESERVE \/ (t + ll) \div 32 = 0
    THEN [out |-> out, t |-> t + l, w |-> w]
    ELSE LET r == do_compress(s, ip, ll, ip + (IF t < 4 THEN 4 - t ELSE 0), ip, t,
                              out, ClearTable(w), TRUE)
         IN CompressBlocks(s, ip + ll, l - ll, r.t, r.out, r.w)

\* the literals left at the end, then the end-of-stream marker
EmitTail(out, s, t) ==
    LET lits == SubSeq(s, Len(s) - t + 1, Len(s))
        run == IF t = 0 THEN out
               ELSE IF out = <<>> /\ t <= 238 THEN <<17 + t>> \o lits
               ELSE EmitLiterals(out, s, Len(s) - t, t)
    IN run \o <<M4_MARKER + 1, 0, 0>>

\* lzo1x_1_compress(src, src_len, dst, &dst_len, wrkmem) with cap bytes
\* behind dst: [code, out, out_len, w]
lzo1x_1_compress(s, cap, w) ==
    With(CompressBlocks(s, 0, Len(s), 0, <<>>, w),
         LAMBDA r : With(EmitTail(r.out, s, r.t),
            LAMBDA out :
                IF Len(out) > cap
                THEN [code |-> LZO_E_OUT_OF_MEMORY, out |-> <<>>, out_len |-> cap,
                      w |-> r.w]
                ELSE [code |-> LZO_E_OK, out |-> out, out_len |-> Len(out),
                      w |-> r.w]))

-----------------------------------------------------------------------------
(* Decompressor.  One state machine serves both variants: with safe every  *)
(* read and write is checked first and a violation is an error code; the   *)
(* unchecked variant performs the access, which is undefined behaviour     *)
(* (ub) as soon as it leaves the buffers.                                  *)

\* `while (*ip == 0) { t += 255; ip++; }`: over when the input ends first
RECURSIVE ZeroRun(_, _, _)
ZeroRun(s, ip, t) ==
    IF ip >= Len(s) THEN [t |-> t, ip |-> ip, over |-> TRUE]
    ELSE IF At(s, ip) = 0 THEN ZeroRun(s, ip + 1, t + 255)
    ELSE [t |-> t, ip |-> ip, over |-> FALSE]

\* copy cnt bytes from m_pos on to the end of out, one byte at a time in
\* increasing order (source and destination may overlap)
RECURSIVE CopyMatch(_, _, _)
CopyMatch(out, m_pos, cnt) ==
    IF cnt = 0 THEN out
    ELSE CopyMatch(Append(out, At(out, m_pos)), m_pos + 1, cnt - 1)

Halt(c, out, safe) == [code |-> IF safe THEN c ELSE LZO_E_OK, out |-> out, ub |-> ~safe]

\* the end marker accepted whatever was produced
EofFoundLax(s, n, safe, ip, out) ==
    IF ip < Len(s) THEN [code |-> LZO_E_INPUT_NOT_CONSUMED, out |-> out, ub |-> FALSE]
    ELSE IF ip > Len(s) THEN [code |-> LZO_E_INPUT_OVERRUN, out |-> out, ub |-> FALSE]
    ELSE [code |-> LZO_E_OK, out |-> out, ub |-> FALSE]

\* end marker consumed: the unchecked variant reports what it produced
EofFound(s, n, safe, ip, out) ==
    IF ip < Len(s) THEN [code |-> LZO_E_INPUT_NOT_CONSUMED, out |-> out, ub |-> FALSE]
    ELSE IF ip > Len(s) THEN [code |-> LZO_E_INPUT_OVERRUN, out |-> out, ub |-> FALSE]
    ELSE IF safe /\ Len(out) # n
         THEN [code |-> LZO_E_OUTPUT_NOT_CONSUMED, out |-> out, ub |-> FALSE]
    ELSE [code |-> LZO_E_OK, out |-> out, ub |-> FALSE]

RECURSIVE Decode(_, _, _, _, _, _, _)
Decode(s, n, safe, ip, out, t, lbl) ==
    LET avail == Len(s) - ip
        room == n - Len(out)
        \* a literal run of cnt bytes, then `after` more input bytes demanded
        Literals(ip0, cnt, after, next) ==
            IF Len(s) - ip0 < (IF safe THEN cnt + after ELSE cnt)
            THEN Halt(LZO_E_INPUT_OVERRUN, out, safe)
            ELSE IF room < cnt THEN Halt(LZO_E_OUTPUT_OVERRUN, out, safe)
            ELSE Decode(s, n, safe, ip0 + cnt,
                        out \o SubSeq(s, ip0 + 1, ip0 + cnt), 0, next)
        \* a match of cnt bytes from m_pos, input position ip0 after it
        Match(ip0, m_pos, cnt) ==
            IF m_pos < 0 \/ m_pos >= Len(out)
            THEN Halt(LZO_E_LOOKBEHIND_OVERRUN, out, safe)
            ELSE IF room < cnt THEN Halt(LZO_E_OUTPUT_OVERRUN, out, safe)
            ELSE Decode(s, n, safe, ip0, CopyMatch(out, m_pos, cnt), 0, "match_done")
    IN
    CASE lbl = "start" ->
           IF avail < 1 THEN Halt(LZO_E_INPUT_OVERRUN, out, safe)
           ELSE IF At(s, ip) > 17
           THEN LET t1 == At(s, ip) - 17 IN
                IF t1 < 4 THEN Decode(s, n, safe, ip + 1, out, t1, "match_next")
                ELSE Literals(ip + 1, t1, 3, "first_literal_run")
           ELSE Decode(s, n, safe, ip, out, 0, "loop")
      [] lbl = "loop" ->
           IF avail < (IF safe THEN 3 ELSE 1) THEN Halt(LZO_E_INPUT_OVERRUN, out, safe)
           ELSE LET t1 == At(s, ip) IN
                IF t1 >= 16 THEN Decode(s, n, safe, ip + 1, out, t1, "match")
                ELSE IF t1 = 0
                THEN LET z == ZeroRun(s, ip + 1, 0) IN
                     IF z.over THEN Halt(LZO_E_INPUT_OVERRUN, out, safe)
                     ELSE Literals(z.ip + 1, z.t + 15 + At(s, z.ip) + 3, 3,
                                   "first_literal_run")
                ELSE Literals(ip + 1, t1 + 3, 3, "first_literal_run")
      [] lbl = "first_literal_run" ->
           IF avail < 1 THEN Halt(LZO_E_INPUT_OVERRUN, out, safe)
           ELSE LET t1 == At(s, ip) IN
                IF t1 >= 16 THEN Decode(s, n, safe, ip + 1, out, t1, "match")
                ELSE IF avail < 2 THEN Halt(LZO_E_INPUT_OVERRUN, out, safe)
                ELSE Match(ip + 2,
                           Len(out) - (1 + M2_MAX_OFFSET) - (t1 \div 4)
                               - At(s, ip + 1) * 4,
                           3)
      [] lbl = "match" ->
           IF t >= 64
           THEN IF avail < 1 THEN Halt(LZO_E_INPUT_OVERRUN, out, safe)
                ELSE Match(ip + 1,
                           Len(out) - 1 - ((t \div 4) % 8) - At(s, ip) * 8,
                           (t \div 32) - 1 + 2)
           ELSE IF t >= 16
           THEN LET m3 == t >= 32
                    low == IF m3 THEN t % 32 ELSE t % 8
                    z == IF low = 0 THEN ZeroRun(s, ip, 0)
                         ELSE [t |-> low, ip |-> ip, over |-> FALSE]
                    cnt == IF low = 0
                           THEN z.t + (IF m3 THEN 31 ELSE 7) + Rd(s, z.ip)
                           ELSE low
                    ip2 == IF low = 0 THEN z.ip + 1 ELSE ip
                    dist == (Rd(s, ip2) \div 4) + Rd(s, ip2 + 1) * 64
                    far == IF (t % 16) >= 8 THEN 16384 ELSE 0
                IN
                IF z.over \/ Len(s) - ip2 < 2 THEN Halt(LZO_E_INPUT_OVERRUN, out, safe)
                ELSE IF m3 THEN Match(ip2 + 2, Len(out) - 1 - dist, cnt + 2)
                ELSE IF far = 0 /\ dist = 0 THEN EofFound(s, n, safe, ip2 + 2, out)
                ELSE Match(ip2 + 2, Len(out) - far - dist - 16384, cnt + 2)
           ELSE IF avail < 1 THEN Halt(LZO_E_INPUT_OVERRUN, out, safe)
                ELSE Match(ip + 1, Len(out) - 1 - (t \div 4) - At(s, ip) * 4, 2)
      [] lbl = "match_done" ->
           LET t1 == At(s, ip - 2) % 4 IN
           IF t1 = 0 THEN Decode(s, n, safe, ip, out, 0, "loop")
           ELSE Decode(s, n, safe, ip, out, t1, "match_next")
      [] lbl = "match_next" ->
           IF avail < (IF safe THEN t + 3 ELSE t + 1)
           THEN Halt(LZO_E_INPUT_OVERRUN, out, safe)
           ELSE IF room < t THEN Halt(LZO_E_OUTPUT_OVERRUN, out, safe)
           ELSE Decode(s, n, safe, ip + t + 1,
                       out \o SubSeq(s, ip + 1, ip + t), At(s, ip + t), "match")

\* lzo1x_decompress_safe(src, src_len, dst, &dst_len, NULL): [code, out, ub]
lzo1x_decompress_safe(s, n) == Decode(s, n, TRUE, 0, <<>>, 0, "start")

\* lzo1x_decompress(src, src_len, dst, &dst_len, NULL): [code, out, ub]
lzo1x_decompress(s, n) == Decode(s, n, FALSE, 0, <<>>, 0, "start")

-----------------------------------------------------------------------------
(* Adler-32 *)

LZO_BASE == 65521
LZO_NMAX == 5552

\* a 32-bit value as its two 16-bit halves
U32(hi, lo) == [hi |-> hi, lo |-> lo]

\* `s1 += *buf++; s2 += s1` over cnt bytes from pos on, without reduction
\* (the sums are unsigned)
RECURSIVE AdlerRun(_, _, _, _, _)
AdlerRun(buf, pos, cnt, s1, s2) ==
    IF cnt = 0 \/ s1 < 0 \/ s2 < 0 THEN <<s1, s2>>
    ELSE AdlerRun(buf, pos + 1, cnt - 1, s1 + At(buf, pos), s2 + s1 + At(buf, pos))

\* sixteen bytes at a time, then the rest of the chunk
RECURSIVE AdlerChunk(_, _, _, _, _)
AdlerChunk(buf, pos, k, s1, s2) ==
    IF k >= 16 /\ s1 >= 0 /\ s2 >= 0
    THEN LET r == AdlerRun(buf, pos, 16, s1, s2) IN
         AdlerChunk(buf, pos + 16, k - 16, r[1], r[2])
    ELSE AdlerRun(buf, pos, k, s1, s2)

\* chunks of at most LZO_NMAX bytes, both sums reduced after each chunk
RECURSIVE AdlerLoop(_, _, _, _)
AdlerLoop(buf, pos, s1, s2) ==
    IF pos >= Len(buf) THEN U32(s2, s1)
    ELSE LET left == Len(buf) - pos
             k == IF left < LZO_NMAX THEN left ELSE LZO_NMAX
             r == AdlerChunk(buf, pos, k, s1, s2)
         IN AdlerLoop(buf, pos + k, r[1] % LZO_BASE, r[2] % LZO_BASE)

\* lzo_adler32(adler, buf, len)
lzo_adler32(adler, buf) == AdlerLoop(buf, 0, adler.lo, adler.hi)

\* the checksum seeded with 0
adler32_seed0(buf) == lzo_adler32(U32(0, 0), buf)

adler32(buf) == lzo_adler32(U32(0, 1), buf)

-----------------------------------------------------------------------------
(* The binding: LZO::init, compress, decompress, decompress_safe *)

\* __lzo_init_v2 with the sizes lzo_init passes: the self-check passes
lzo_init_v2 == LZO_E_OK

\* the values the uninitialised scratch memory may hold
Garbage == {0, 7, 65535}

\* wrkmem as MaybeUninit::uninit().assume_init() leaves it
Uninit(g) == [dflt |-> g, tbl |-> EmptyTbl]

\* the bound without its constant part
WorstCaseNoSlack(n) == n + n \div 16

\* src.len() + src.len() / 16 + 64 + 3
WorstCase(n) == n + n \div 16 + 64 + 3

\* the compressed bytes appended to the zero-filled buffer instead of
\* written into it
compress_append(s, w) ==
    With(lzo1x_1_compress(s, WorstCase(Len(s)), w),
         LAMBDA r : [res |-> lzo_err_code_to_result(r.code,
                                 Zeros(WorstCase(Len(s))) \o r.out),
                     w |-> r.w])

\* the buffer returned at its allocated size
compress_noresize(s, w) ==
    With(lzo1x_1_compress(s, WorstCase(Len(s)), w),
         LAMBDA r : [res |-> lzo_err_code_to_result(r.code,
                                 Overwrite(Zeros(WorstCase(Len(s))), r.out)),
                     w |-> r.w])

\* LZO::compress: [res, w], the result and the scratch memory afterwards.
\* out_len is the capacity going in and the produced length coming out.
compress(s, w) ==
    With(lzo1x_1_compress(s, WorstCase(Len(s)), w),
         LAMBDA r : [res |-> lzo_err_code_to_result(r.code,
                                 Resize(Overwrite(Zeros(WorstCase(Len(s))), r.out),
                                        r.out_len)),
                     w |-> r.w])

\* the destination one byte too long
decompress_safe_plus1(s, n, reread) ==
    With(lzo1x_decompress_safe(s, n),
         LAMBDA r : lzo_err_code_to_result(r.code, Overwrite(Zeros(n + 1), r.out)))

\* what `if code == 0 && dst.len() < dst_len { dst.resize(dst_len, 0) }`
\* leaves in dst.  The codec has stored the produced length through a
\* pointer to the immutable dst_len; the comparison reads either the stored
\* value (reread) or the original one.
AfterResize(r, n, reread) ==
    IF r.code = LZO_E_OK /\ n < (IF reread THEN Len(r.out) ELSE n)
    THEN Resize(Overwrite(Zeros(n), r.out), Len(r.out))
    ELSE Overwrite(Zeros(n), r.out)

\* LZO::decompress_safe
decompress_safe(s, n, reread) ==
    With(lzo1x_decompress_safe(s, n),
         LAMBDA r : lzo_err_code_to_result(r.code, AfterResize(r, n, reread)))

\* the decoder writing into a temporary; the zero-filled vector is returned
decompress_lost(s, n, reread) ==
    With(lzo1x_decompress(s, n),
         LAMBDA r : {lzo_err_code_to_result(r.code, Zeros(n))})

\* LZO::decompress: the set of results the call may have.  Once the
\* unchecked decoder has left its buffers the call may abort or return
\* what it had written.
decompress(s, n, reread) ==
    With(lzo1x_decompress(s, n),
         LAMBDA r : IF r.ub THEN {Err("abort"), Ok(Overwrite(Zeros(n), r.out))}
                    ELSE {lzo_err_code_to_result(r.code, AfterResize(r, n, reread))})

-----------------------------------------------------------------------------
(* Inputs *)

\* len bytes: pre distinct bytes, then pat repeated, and from position cut
\* on bytes that never repeat
Gen(len, pre, pat, cut) ==
    [i \in 1..len |->
        LET p == i - 1 IN
        IF p < pre THEN 100 + p
        ELSE IF p >= cut THEN 50 + p
        ELSE pat[((p - pre) % Len(pat)) + 1]]

Pats == {<<0>>, <<1, 2>>, <<1, 2, 0>>, <<9, 8, 7, 6, 5>>, <<255, 255, 3, 3, 3, 3, 3>>}

\* every length once, so that the short and the empty buffer are there
Shorts == {Gen(len, 0, <<1, 2, 3>>, len) : len \in 0..MaxLen}

Longs ==
    {Gen(len, pre, pat, cut) :
        len \in (MaxLen - Span)..MaxLen, pre \in {0, 6}, pat \in Pats,
        cut \in {12, 17, MaxLen + 1}}

BufSet == Shorts \cup Longs

\* buffers compressed one after the other on one instance
ReuseBufs ==
    {<<>>, Gen(3, 0, <<1, 2, 3>>, 3)} \cup
    {Gen(MaxLen, pre, pat, cut) : pre \in {0, 6}, pat \in Pats, cut \in {17, MaxLen + 1}}

\* streams that compress does not produce: the distance-1 two-byte match,
\* trailing bytes after the end marker, a match before the start of the
\* output, a run that never ends, a long literal run
RawStreams ==
    {<<20, 7, 8, 9, 0, 0, 17, 0, 0>>,
     <<20, 7, 8, 9, 17, 0, 0, 0>>,
     <<20, 7, 8, 9, 4, 0, 17, 0, 0>>,
     <<18, 7, 64, 0, 17, 0, 0>>,
     <<19, 7, 8, 32, 0, 0>>,
     <<0, 0, 0>>,
     <<21, 1, 2, 3, 4, 1, 0, 17, 0, 0>>,
     <<17, 0, 0>>,
     <<18, 5, 33, 0, 0, 17, 0, 0>>,
     <<17, 1, 0>>}

AdlerBufs ==
    {Gen(len, 0, pat, len) : len \in 0..MaxAdlerLen, pat \in Pats}
    \cup {[i \in 1..1024 |-> 9], [i \in 1..300 |-> 255]}

NoRes == [ok |-> FALSE, val |-> <<>>, err |-> "unset"]

-----------------------------------------------------------------------------
(* The caller: one instance, one source buffer, one round of calls *)

Init ==
    /\ pc = "new"
    /\ wrkmem = "none"
    /\ src \in BufSet
    /\ stream = <<>>
    /\ dst_len = -1
    /\ cres = NoRes /\ sres = NoRes /\ ures = NoRes
    /\ code = 0 /\ eres = NoRes /\ ares = U32(0, 0)
    /\ calls = 0

\* LZO::init
LzoInit ==
    /\ pc = "new"
    /\ lzo_err_code_to_result(lzo_init_v2, <<>>).ok
    /\ \E g \in Garbage : wrkmem' = Uninit(g)
    /\ pc' = "ready"
    /\ UNCHANGED <<src, stream, dst_len, cres, sres, ures, code, eres, ares, calls>>

\* lzo.compress(&src)
Compress ==
    /\ pc = "ready"
    /\ \E c \in {compress(src, wrkmem)} :
        /\ cres' = c.res
        /\ wrkmem' = c.w
        /\ stream' = c.res.val
    /\ pc' = "compressed"
    /\ calls' = calls + 1
    /\ UNCHANGED <<src, dst_len, sres, ures, code, eres, ares>>

\* the caller drops the last k bytes of the stream it got
Truncate ==
    /\ pc = "compressed" /\ cres.ok /\ stream = cres.val
    /\ dst_len = -1
    /\ \E k \in 1..Len(stream) : stream' = SubSeq(stream, 1, Len(stream) - k)
    /\ UNCHANGED <<pc, wrkmem, src, dst_len, cres, sres, ures, code, eres, ares, calls>>

\* the caller holds a stream from elsewhere
Forge ==
    /\ pc = "ready" /\ src = <<>>
    /\ \E s \in RawStreams : stream' = s
    /\ pc' = "forged"
    /\ UNCHANGED <<wrkmem, src, dst_len, cres, sres, ures, code, eres, ares, calls>>

\* the expected lengths the caller may state
Lens ==
    IF dst_len # -1 THEN {dst_len}
    ELSE IF pc = "forged" THEN 0..MaxForgeLen
    ELSE IF stream = cres.val
         THEN {n \in {Len(src) - 1, Len(src), Len(src) + 1} : n >= 0}
    ELSE {Len(src)}

\* lzo.decompress_safe(&stream, dst_len)
DecompressSafe ==
    /\ pc \in {"compressed", "forged"}
    /\ sres = NoRes
    /\ \E n \in Lens, reread \in BOOLEAN :
        /\ sres' = decompress_safe(stream, n, reread)
        /\ dst_len' = n
    /\ UNCHANGED <<pc, wrkmem, src, stream, cres, ures, code, eres, ares, calls>>

\* lzo.decompress(&stream, dst_len)
Decompress ==
    /\ pc \in {"compressed", "forged"}
    /\ ures = NoRes
    /\ \E n \in Lens, reread \in BOOLEAN :
        /\ \E r \in decompress(stream, n, reread) : ures' = r
        /\ dst_len' = n
    /\ UNCHANGED <<pc, wrkmem, src, stream, cres, sres, code, eres, ares, calls>>

Next == LzoInit \/ Compress \/ Truncate \/ Forge \/ DecompressSafe \/ Decompress

Spec == Init /\ [][Next]_vars

-----------------------------------------------------------------------------
(* One instance used for several compress calls in a row *)

InitReuse ==
    /\ pc = "new"
    /\ wrkmem = "none"
    /\ src = <<>>
    /\ stream = <<>>
    /\ dst_len = -1
    /\ cres = NoRes /\ sres = NoRes /\ ures = NoRes
    /\ code = 0 /\ eres = NoRes /\ ares = U32(0, 0)
    /\ calls = 0

\* lzo.compress(&b) on an instance that may have been used before
CompressNext ==
    /\ pc \in {"ready", "compressed"}
    /\ calls < MaxCalls
    /\ \E b \in ReuseBufs :
        /\ src' = b
        /\ \E c \in {compress(b, wrkmem)} :
            /\ cres' = c.res
            /\ wrkmem' = c.w
            /\ stream' = c.res.val
    /\ pc' = "compressed"
    /\ calls' = calls + 1
    /\ dst_len' = -1 /\ sres' = NoRes /\ ures' = NoRes
    /\ UNCHANGED <<code, eres, ares>>

NextReuse == LzoInit \/ CompressNext \/ DecompressSafe \/ Decompress

SpecReuse == InitReuse /\ [][NextReuse]_vars

-----------------------------------------------------------------------------
(* lzo_err_code_to_result applied to one code *)

InitErr ==
    /\ pc = "new"
    /\ wrkmem = "none"
    /\ src = <<>>
    /\ stream = <<>>
    /\ dst_len = -1
    /\ cres = NoRes /\ sres = NoRes /\ ures = NoRes
    /\ code \in (0 - MaxCode)..1
    /\ eres = NoRes /\ ares = U32(0, 0)
    /\ calls = 0

\* the value carried by a successful result
Payload == <<42>>

MapCode ==
    /\ pc = "new"
    /\ eres' = lzo_err_code_to_result(code, Payload)
    /\ pc' = "mapped"
    /\ UNCHANGED <<wrkmem, src, stream, dst_len, cres, sres, ures, code, ares, calls>>

SpecErr == InitErr /\ [][MapCode]_vars

-----------------------------------------------------------------------------
(* adler32 applied to one buffer *)

InitAdler ==
    /\ pc = "new"
    /\ wrkmem = "none"
    /\ src \in AdlerBufs
    /\ stream = <<>>
    /\ dst_len = -1
    /\ cres = NoRes /\ sres = NoRes /\ ures = NoRes
    /\ code = 0 /\ eres = NoRes /\ ares = U32(0, 0)
    /\ calls = 0

Checksum ==
    /\ pc = "new"
    /\ ares' = adler32(src)
    /\ pc' = "summed"
    /\ UNCHANGED <<wrkmem, src, stream, dst_len, cres, sres, ures, code, eres, calls>>

SpecAdler == InitAdler /\ [][Checksum]_vars

-----------------------------------------------------------------------------
(* Properties *)

\* compress returned and the caller still holds all of its output
Whole == pc = "compressed" /\ cres.ok /\ stream = cres.val

\* compress returned and the caller has dropped trailing bytes of its output
Truncated == pc = "compressed" /\ cres.ok /\ Len(stream) < Len(cres.val)

\* the last op-code of s is the end-of-stream marker: a far match with
\* distance bits zero
EndsWithMarker(s) ==
    /\ Len(s) >= 3
    /\ At(s, Len(s) - 1) = 0
    /\ At(s, Len(s) - 2) \div 4 = 0

\* C1: round trip.  For every source buffer (empty, short, repetitive or
\* not) compress succeeds, and decompress_safe of its whole output with the
\* source length as expected length succeeds with exactly the source bytes.
C1_RoundTrip ==
    (pc = "compressed" /\ stream = cres.val /\ dst_len = Len(src) /\ sres # NoRes)
        => (cres.ok /\ sres = Ok(src))

\* a repetitive buffer was compressed to fewer bytes and came back whole
C1_Witness ==
    /\ Whole /\ dst_len = Len(src) /\ sres = Ok(src)
    /\ Len(stream) < Len(src)

C3_SuccessHasExpectedLength ==
    (sres # NoRes /\ sres.ok) => Len(sres.val) = dst_len

\* a successful decode of a stream that compress did not produce
C3_Witness ==
    /\ pc = "forged" /\ sres # NoRes /\ sres.ok
    /\ dst_len = 5 /\ Len(sres.val) = 5

\* C4: a compressed stream with its last k >= 1 bytes removed, decoded with
\* the source length as expected length, gives InputOverrun or EOFNotFound
\* and never success.
C4_TruncationDetected ==
    (Truncated /\ dst_len = Len(src) /\ sres # NoRes)
        => (~sres.ok /\ sres.err \in {"InputOverrun", "EOFNotFound"})

\* one byte was cut from a stream that holds a match, and the decoder ran
\* out of input
C4_Witness ==
    /\ Truncated /\ Len(stream) = Len(cres.val) - 1
    /\ Len(cres.val) < Len(src)
    /\ dst_len = Len(src)
    /\ sres = Err("InputOverrun")

\* C5: the stream compress returns is never longer than
\* len + len / 16 + 64 + 3, the capacity allocated before the codec call.
C5_WorstCaseBound ==
    (pc = "compressed" /\ cres.ok) => Len(cres.val) <= WorstCase(Len(src))

\* a buffer without repetition: the stream is longer than the source
C5_Witness ==
    /\ pc = "compressed" /\ cres.ok
    /\ Len(src) >= 32
    /\ Len(cres.val) > Len(src)

\* C6: compress returns Ok for every source buffer; in particular never
\* OutOfMemory or NotCompressible.
C6_CompressNeverFails ==
    pc = "compressed" => (cres.ok /\ cres.err \notin Error)

\* the empty buffer compressed to the bare end marker
C6_Witness ==
    /\ pc = "compressed" /\ src = <<>>
    /\ cres = Ok(<<17, 0, 0>>)

\* C7: when decompress and decompress_safe both succeed on the same stream
\* and expected length, they return the same bytes.
C7_SafeUncheckedAgree ==
    (sres # NoRes /\ ures # NoRes /\ sres.ok /\ ures.ok) => sres.val = ures.val

\* both decoders accepted a stream that holds a match
C7_Witness ==
    /\ Whole /\ Len(stream) < Len(src)
    /\ sres # NoRes /\ ures # NoRes /\ sres.ok /\ ures.ok
    /\ ures.val = src

\* the reference Adler-32 over the positions lo .. hi - 1, from the sums
\* st = <<s1, s2>>: both sums reduced modulo 65521 after every byte.  The
\* range is halved so that the evaluation does not nest once per byte.
RECURSIVE RefAdler(_, _, _, _)
RefAdler(buf, lo, hi, st) ==
    IF hi <= lo THEN st
    ELSE IF hi = lo + 1
    THEN <<(st[1] + At(buf, lo)) % 65521,
           (st[2] + ((st[1] + At(buf, lo)) % 65521)) % 65521>>
    ELSE With(RefAdler(buf, lo, (lo + hi) \div 2, st),
              LAMBDA h : RefAdler(buf, (lo + hi) \div 2, hi, h))

\* C8: adler32(buf) is the reference Adler-32 of buf with seed 1 (s1 = 1,
\* s2 = 0, result s2 * 65536 + s1); 1024 bytes of 9 give 439886849 and the
\* empty buffer gives 1.
C8_AdlerIsReference ==
    pc = "summed" =>
        /\ ares = With(RefAdler(src, 0, Len(src), <<1, 0>>),
                       LAMBDA r : U32(r[2], r[1]))
        /\ (src = [i \in 1..1024 |-> 9] => ares.hi * 65536 + ares.lo = 439886849)
        /\ (src = <<>> => ares = U32(0, 1))

\* the checksum of the 1024-byte test vector was taken
C8_Witness ==
    /\ pc = "summed" /\ Len(src) = 1024
    /\ ares = U32(6712, 9217)

\* the variant each code of the codec stands for
VariantOf(c) ==
    CASE c = -1 -> "Error"
      [] c = -2 -> "OutOfMemory"
      [] c = -3 -> "NotCompressible"
      [] c = -4 -> "InputOverrun"
      [] c = -5 -> "OutputOverrun"
      [] c = -6 -> "LookbehindOverrun"
      [] c = -7 -> "EOFNotFound"
      [] c = -8 -> "InputNotConsumed"
      [] c = -9 -> "NotYetImplemented"
      [] c = -10 -> "InvalidArgument"
      [] c = -11 -> "InvalidAlignment"
      [] c = -12 -> "OutputNotConsumed"
      [] c = -99 -> "InternalError"
      [] OTHER -> "Error"

\* C9: the mapping of codes is exhaustive and faithful: 0 gives Ok with the
\* value, each code -1..-12 and -99 gives its own variant (InvalidAlignment
\* for -11), any other integer gives Error.
C9_MappingFaithful ==
    pc = "mapped" =>
        eres = (IF code = 0 THEN Ok(Payload) ELSE Err(VariantOf(code)))

\* C10: compress output depends on the source buffer only: whatever calls
\* were made on the instance before and whatever its scratch memory held at
\* first, compress returns what it returns on a fresh instance.
C10_OutputDependsOnSourceOnly ==
    pc = "compressed" =>
        \A g \in Garbage : cres = compress(src, Uninit(g)).res

\* a second compress on an instance whose table the first one had filled
C10_Witness ==
    /\ pc = "compressed" /\ calls >= 2
    /\ wrkmem.tbl # EmptyTbl
    /\ cres.ok /\ Len(cres.val) < Len(src)

=============================================================================
